---- MODULE Spec2Model ----
(***************************************************************************)
(* The storyboard pipeline of AD-Geny: AdStoryboardGenerator.generate      *)
(* (main.py) drives AdDetailsGenerator.generate_ad_details                 *)
(* (ad_details_generator.py) and the three stages of SceneGenerator        *)
(* (scene_generator.py).  Every stage sends a prompt to the completion     *)
(* model, parses the raw text with a PydanticOutputParser and, when the    *)
(* parse raises, sends one reinforced retry prompt.                        *)
(*                                                                         *)
(* The completion model is the environment: each invocation answers with   *)
(* any text of a small set of response texts, or raises.  A response text  *)
(* is modelled by what the parser sees in it: whether reading it raises    *)
(* (blocked), whether a JSON object can be extracted from it (json), and   *)
(* the object itself (obj), a function from the keys present to raw        *)
(* values.  Raw integers are decimal strings, converted by ParseInt.       *)
(* Python's None is the empty sequence <<>>, a present value v is <<v>>.   *)
(***************************************************************************)
EXTENDS Integers, Sequences, FiniteSets, TLC

\* Largest scene count a run is explored with.
MaxScenes == 2

\* ------------------------------------------------------------------ shapes

\* models.py, Scene: the six optional fields of a scene input.
SceneInputFields ==
    {"characters", "environment", "timing_of_day", "scene_duration",
     "scene_goal", "user_recommendation"}

\* models.py, AdStoryboardRequest / AdDetails: the nine text fields.
AdTextFields ==
    {"product_name", "product_description", "target_audience", "selling_point",
     "key_message", "duration_of_ad", "tone", "purpose", "country"}

\* models.py, AdDetails: every field is required.
AdDetailsFields == AdTextFields \cup {"number_of_scenes"}

\* models.py, SceneOutput: every field is required.
SceneOutputFields ==
    {"scene_number", "characters", "environment", "timing_of_day",
     "scene_duration", "scene_goal", "visuals", "camera_work", "sound_design",
     "transition"}

\* models.py, CharacterDetails: every field is required.
CharacterFields == {"name", "appearance", "clothing", "expression"}

\* models.py, TextToImagePrompt / ImageToVideoPrompt (the same fields).
PromptFields ==
    {"scene_number", "characters", "action", "environment_location",
     "environment_lighting", "environment_details", "style_type",
     "style_technique", "style_reference"}

\* The defaults of style_type and style_reference in both prompt shapes.
StyleDefaults ==
    [style_type |-> "Photorealistic CGI", style_reference |-> "Gregory Crewdson"]

\* Variant: the style fields have no default, every field is required.
PromptRequired_all == PromptFields

\* Fields of the prompt shapes without a default.
PromptRequired == PromptFields \ DOMAIN StyleDefaults

\* ------------------------------------------------------------ raw values

\* The integers a raw decimal string of the explored responses can denote.
IntRange == (0 - 1) .. (MaxScenes + 1)

\* str(n) of an integer, as the f-strings and JSON render it.
IntText(n) == ToString(n)

\* Whether pydantic can read the raw value as an int.
IsIntText(s) == \E n \in IntRange : IntText(n) = s

\* int(s) for a raw value that IsIntText.
ParseInt(s) == CHOOSE n \in IntRange : IntText(n) = s

\* Python truthiness of an Optional[str]: None and "" are falsy.
Truthy(opt) == opt # <<>> /\ opt[1] # ""

\* `value or default` for an Optional[str].
OrElse(opt, default) == IF Truthy(opt) THEN opt[1] ELSE default

\* A field f of `obj` dropped (the model left the key out).
Without(text, f) ==
    [text EXCEPT !.obj = [g \in (DOMAIN text.obj) \ {f} |-> text.obj[g]]]

\* ------------------------------------------------------------- parsing

\* PydanticOutputParser.parse raises on this text for the shape with the
\* given required keys and int keys: reading response.text raises, no JSON
\* object can be extracted, a required key is missing, or an int is not one.
ParseFails(text, required, ints) ==
    \/ text.blocked
    \/ ~text.json
    \/ ~(required \subseteq DOMAIN text.obj)
    \/ \E f \in ints \cap DOMAIN text.obj : ~IsIntText(text.obj[f])

\* A raw character list validates when every entry has all four fields.
CharactersValid(raw) ==
    \A k \in DOMAIN raw : CharacterFields \subseteq DOMAIN raw[k]

\* One validated CharacterDetails: the four fields, extra keys ignored.
ParseCharacter(raw) == [f \in CharacterFields |-> raw[f]]

\* AdDetails parser: fails, or the validated record.
AdDetailsFails(text) == ParseFails(text, AdDetailsFields, {"number_of_scenes"})

ParseAdDetails(text) ==
    [f \in AdDetailsFields |->
        IF f = "number_of_scenes" THEN ParseInt(text.obj[f]) ELSE text.obj[f]]

\* SceneOutput parser.
SceneOutputFails(text) == ParseFails(text, SceneOutputFields, {"scene_number"})

ParseSceneOutput(text) ==
    [f \in SceneOutputFields |->
        IF f = "scene_number" THEN ParseInt(text.obj[f]) ELSE text.obj[f]]

\* TextToImagePrompt / ImageToVideoPrompt parser: the style fields default.
PromptFails(text) ==
    \/ ParseFails(text, PromptRequired, {"scene_number"})
    \/ ~CharactersValid(text.obj["characters"])

ParsePrompt(text) ==
    [f \in PromptFields |->
        IF f = "scene_number" THEN ParseInt(text.obj[f])
        ELSE IF f = "characters"
             THEN [k \in DOMAIN text.obj[f] |-> ParseCharacter(text.obj[f][k])]
        ELSE IF f \in DOMAIN text.obj THEN text.obj[f]
        ELSE StyleDefaults[f]]

\* ------------------------------------------------- the completion model

NoObj == [f \in {} |-> ""]

\* A response no JSON object can be extracted from.
Garbage == [blocked |-> FALSE, json |-> FALSE, obj |-> NoObj]

\* A response whose .text accessor raises (no candidate was returned).
Blocked == [blocked |-> TRUE, json |-> FALSE, obj |-> NoObj]

NoText == Garbage

AdJson(n, c) ==
    [blocked |-> FALSE, json |-> TRUE,
     obj |-> [f \in AdDetailsFields |-> IF f = "number_of_scenes" THEN n ELSE c]]

SceneJson(sn, c) ==
    [blocked |-> FALSE, json |-> TRUE,
     obj |-> [f \in SceneOutputFields |-> IF f = "scene_number" THEN sn ELSE c]]

RawCharacter(c) == [f \in CharacterFields |-> c]

\* A prompt object with the style fields written out.
PromptJson(sn, c, style) ==
    [blocked |-> FALSE, json |-> TRUE,
     obj |-> [f \in PromptFields |->
                IF f = "scene_number" THEN sn
                ELSE IF f = "characters" THEN <<RawCharacter(c)>>
                ELSE IF f \in DOMAIN StyleDefaults THEN style
                ELSE c]]

\* The responses explored for generate_ad_details: every scene count of
\* IntRange up to MaxScenes, two unparseable texts, one object lacking a
\* required key and one whose number_of_scenes is no integer.
AdResponses ==
    {AdJson(IntText(n), "a") : n \in (0 - 1) .. MaxScenes}
        \cup {AdJson("1", "b"), Garbage, Blocked,
              Without(AdJson("1", "b"), "tone"), AdJson("two", "b")}

\* The responses explored for _generate_single_scene: the model answers with
\* scene number 1 or 2 whatever scene was asked for.
SceneResponses ==
    {SceneJson("1", "a"), SceneJson("2", "b"), Garbage, Blocked,
     Without(SceneJson("2", "a"), "transition"), SceneJson("two", "a")}

\* The responses explored for both prompt stages: one with its own
\* style_type that leaves out style_reference, one that leaves both style
\* keys out, and four that do not parse (the last has a character without
\* an expression).
PromptResponses ==
    {Without(PromptJson("1", "a", "Anime"), "style_reference"),
     Without(Without(PromptJson("2", "b", "x"), "style_type"), "style_reference"),
     Garbage, Blocked,
     Without(PromptJson("2", "a", "Anime"), "action"),
     [PromptJson("1", "b", "Anime") EXCEPT
        !.obj["characters"] = <<[name |-> "b", appearance |-> "b", clothing |-> "b"]>>]}

\* ------------------------------------------------------------- requests

\* Scene(): every field None.
EmptyScene == [f \in SceneInputFields |-> <<>>]

\* The scene the form builds for position k: text areas left empty are "",
\* odd positions carry a user recommendation.
FormScene(k) ==
    [f \in SceneInputFields |->
        IF f = "user_recommendation"
        THEN (IF k % 2 = 1 THEN <<"rec">> ELSE <<"">>)
        ELSE IF f = "characters" THEN <<"cast">>
        ELSE <<"">>]

FormScenes(n) == [k \in 1 .. n |-> FormScene(k)]

MkRequest(given, n, scenes) ==
    [f \in AdDetailsFields \cup {"scenes"} |->
        IF f = "number_of_scenes" THEN n
        ELSE IF f = "scenes" THEN scenes
        ELSE IF f \in given THEN <<"user">> ELSE <<>>]

\* The requests a caller of generate passes that are explored: scene count
\* n with n scenes, and requests whose scene list is absent, empty or
\* shorter than the count, or whose count is absent.
Requests ==
    {MkRequest(AdTextFields, <<n>>, <<FormScenes(n)>>) : n \in 1 .. MaxScenes}
        \cup {MkRequest({"product_name"}, <<MaxScenes>>, <<>>),
              MkRequest({"product_name"}, <<MaxScenes>>, <<FormScenes(0)>>),
              MkRequest({"product_name"}, <<MaxScenes>>, <<FormScenes(1)>>),
              MkRequest({}, <<>>, <<FormScenes(1)>>)}

\* AdStoryboardRequest(): the request before the button handler builds it.
NoRequest == MkRequest({}, <<>>, <<>>)

\* The widget values of the form: the product name typed or left empty, the
\* other text inputs filled, number_of_scenes between 1 and the bound, and
\* the six widgets of every scene.
Forms ==
    {[product_name |-> name, number_of_scenes |-> n, scenes |-> FormScenes(n)] :
        name \in {"", "user"}, n \in 1 .. MaxScenes}

\* The Scene the button handler builds from the widgets of one scene:
\* five keyword arguments, user_recommendation is not among them.
HandlerScene(widgets) ==
    [f \in SceneInputFields |->
        IF f = "user_recommendation" THEN <<>> ELSE widgets[f]]

\* The AdStoryboardRequest the button handler builds.
HandlerRequest(form) ==
    MkRequest(AdTextFields, <<form.number_of_scenes>>,
              <<[k \in 1 .. form.number_of_scenes |-> HandlerScene(form.scenes[k])]>>)

\* -------------------------------------------------------------- prompts

\* An f-string's rendering of an Optional[int].
OptText(opt) == IF opt = <<>> THEN "None" ELSE IntText(opt[1])

\* getattr(record, name, None).
GetAttr(record, name) == IF name \in DOMAIN record THEN <<record[name]>> ELSE <<>>

\* The values interpolated into the prompt of generate_ad_details.
AdPrompt(req) ==
    [kind |-> "ad_details",
     input |-> [f \in AdTextFields |-> OrElse(req[f], "Not specified")],
     number_of_scenes |-> OptText(req.number_of_scenes),
     retry |-> <<>>]

\* The retry prompt: the prompt again, then the JSON example, in which the
\* request's scene count is interpolated.
AdRetryPrompt(p, req) ==
    [p EXCEPT !.retry = <<[number_of_scenes |-> OptText(req.number_of_scenes)]>>]

\* The values interpolated into the prompt of _generate_single_scene.
ScenePrompt(scene_number, input_scene, ad) ==
    [kind |-> "scene",
     scene_number |-> IntText(scene_number),
     ad |-> [f \in AdTextFields |-> ad[f]],
     input |-> [f \in SceneInputFields |->
                  OrElse(input_scene[f],
                         IF f = "user_recommendation"
                         THEN "Not specified (follow normal generation)"
                         ELSE "Not specified")],
     priority |-> IF Truthy(input_scene.user_recommendation)
                  THEN input_scene.user_recommendation ELSE <<>>,
     retry |-> <<>>]

\* Variant: the retry prompt is composed again without the priority section.
SceneRetryPrompt_no_priority(p, scene_number) ==
    [p EXCEPT !.retry = <<[scene_number |-> IntText(scene_number)]>>,
              !.priority = <<>>]

\* The retry prompts of the three per-scene stages interpolate the scene
\* number into the JSON example.
SceneRetryPrompt(p, scene_number) ==
    [p EXCEPT !.retry = <<[scene_number |-> IntText(scene_number)]>>]

SceneContext(scene) ==
    [f \in {"characters", "environment", "timing_of_day", "visuals", "camera_work"}
        |-> scene[f]]

\* The priority section of both prompt stages: the scene's
\* user_recommendation attribute, when it has one and it is truthy.
PromptPriority(scene) ==
    LET user_rec == GetAttr(scene, "user_recommendation")
    IN  IF Truthy(user_rec) THEN user_rec ELSE <<>>

\* The values interpolated into the prompt of _generate_single_txt2img_prompt.
Txt2ImgPrompt(scene) ==
    [kind |-> "txt2img",
     scene_number |-> IntText(scene.scene_number),
     scene |-> SceneContext(scene),
     priority |-> PromptPriority(scene),
     retry |-> <<>>]

\* The values interpolated into the prompt of _generate_single_img2vid_prompt.
Img2VidPrompt(scene, txt2img_prompt) ==
    [kind |-> "img2vid",
     scene_number |-> IntText(scene.scene_number),
     scene |-> SceneContext(scene),
     txt2img |-> [f \in {"characters", "action", "environment_location",
                         "environment_lighting", "style_type", "style_technique"}
                    |-> txt2img_prompt[f]],
     priority |-> PromptPriority(scene),
     retry |-> <<>>]

NoPrompt == [kind |-> "none"]

\* ---------------------------------------------------------------- state

VARIABLES
    session_state,    \* the form's widget values, <<>> when generate is called directly
    request,          \* the AdStoryboardRequest passed to generate
    pc,               \* where the run is
    ad_details,       \* generate: ad_details, <<>> until resolved
    scenes_output,    \* generate_scenes: scenes_output / generate: scenes
    txt2img_prompts,  \* generate_text_to_image_prompts: txt2img_prompts
    img2vid_prompts,  \* generate_image_to_video_prompts: img2vid_prompts
    i,                \* position of the per-scene loop under way, 0 outside
    prompt,           \* the prompt of the last completion invocation
    response,         \* the text of the last completion response
    attempt,          \* invocations made by the structured call under way
    total_calls,      \* completion invocations made by the run
    last_call,        \* stage, scene position and attempt of the last one
    error,            \* the exception generate raised, <<>> if none
    storyboard        \* the StoryboardOutput generate returned, <<>> if none

vars ==
    <<session_state, request, pc, ad_details, scenes_output, txt2img_prompts, img2vid_prompts,
      i, prompt, response, attempt, total_calls, last_call, error, storyboard>>

records == <<ad_details, scenes_output, txt2img_prompts, img2vid_prompts>>

Init ==
    /\ \/ /\ session_state = <<>>
          /\ request \in Requests
          /\ pc = "ad_details_first"
       \/ /\ session_state \in {<<form>> : form \in Forms}
          /\ request = NoRequest
          /\ pc = "button"
    /\ ad_details = <<>>
    /\ scenes_output = <<>>
    /\ txt2img_prompts = <<>>
    /\ img2vid_prompts = <<>>
    /\ i = 0
    /\ prompt = NoPrompt
    /\ response = NoText
    /\ attempt = 0
    /\ total_calls = 0
    /\ last_call = [stage |-> "none", index |-> 0, attempt |-> 0]
    /\ error = <<>>
    /\ storyboard = <<>>

\* ----------------------------------------------------------- primitives

\* self.model.generate_content(p): one completion invocation, the n-th of
\* the structured call under way.
Invoke(stage, p, n) ==
    /\ prompt' = p
    /\ attempt' = n
    /\ total_calls' = total_calls + 1
    /\ last_call' = [stage |-> stage, index |-> i, attempt |-> n]

\* The exception of a parse that raises: reading the text of a blocked
\* response raises a ValueError, the parser raises an OutputParserException
\* that carries the completion it was given.  The stages add nothing to it.
ParserException(text) ==
    IF text.blocked
    THEN [kind |-> "ValueError", completion |-> <<>>]
    ELSE [kind |-> "OutputParserException", completion |-> <<text>>]

\* The exception of a completion invocation that raises.
CapabilityError == [kind |-> "ExternalError", completion |-> <<>>]

\* An exception leaves the stage and generate: nothing catches it there.
Propagate(exception) ==
    /\ pc' = "raised"
    /\ error' = <<exception>>
    /\ UNCHANGED <<session_state, request, records, i, storyboard>>

\* Variant: the invocation sits inside the try block, so its error is caught
\* like a parse failure and the retry follows a first invocation that raised.
ExternalError_caught ==
    /\ error' = <<CapabilityError>>
    /\ pc' = CASE pc = "ad_details_first" -> "ad_details_retry"
                [] pc = "scene_first" -> "scene_retry"
                [] pc = "txt2img_first" -> "txt2img_retry"
                [] pc = "img2vid_first" -> "img2vid_retry"
                [] OTHER -> "raised"
    /\ UNCHANGED <<session_state, request, records, i, storyboard, response>>

\* generate_content itself raises: the call is outside the try block.
ExternalError == Propagate(CapabilityError) /\ UNCHANGED response

\* The parse raised in the try block: the except clause builds the retry
\* prompt and the retry call follows.
ToRetry(label) ==
    /\ pc' = label
    /\ UNCHANGED <<session_state, request, records, i, error, storyboard>>

\* if not input_scenes: input_scenes = []
InputScenes(opt) == IF opt = <<>> THEN <<>> ELSE opt[1]

\* Variant: the loop index is used as a list index without the - 1.
InputScene_zero_based(input_scenes, k) ==
    IF k < Len(input_scenes) THEN input_scenes[k + 1] ELSE EmptyScene

\* input_scenes[i - 1] if i <= len(input_scenes) else Scene()
InputScene(input_scenes, k) ==
    IF k <= Len(input_scenes) THEN input_scenes[k] ELSE EmptyScene

\* Variant: the scene count is taken from the input scene list.
NumScenes_from_inputs(ad, input_scenes) == Len(input_scenes)

\* num_scenes = ad_details.number_of_scenes
NumScenes(ad, input_scenes) == ad.number_of_scenes

\* Variant: the parsed scene number is kept.
WithSceneNumber_kept(record, scene) == record

\* txt2img_prompt.scene_number = scene.scene_number (and the same for
\* img2vid_prompt), on the first-attempt path and on the retry path.
WithSceneNumber(record, scene) ==
    [record EXCEPT !.scene_number = scene.scene_number]

\* len(list(zip(a, b)))
ZipLen(a, b) == IF Len(a) <= Len(b) THEN Len(a) ELSE Len(b)

\* -------------------------------------------- create_gradio_interface

\* main.py lines 267-304: the "Generate Storyboard" button.  Without a
\* product name the handler warns and returns; otherwise it builds the
\* scenes and the request anew and calls generate.
button_handler ==
    /\ pc = "button"
    /\ IF session_state[1].product_name = ""
       THEN pc' = "warned" /\ request' = request
       ELSE pc' = "ad_details_first" /\ request' = HandlerRequest(session_state[1])
    /\ UNCHANGED <<session_state, records, i, prompt, response, attempt,
                   total_calls, last_call, error, storyboard>>

\* ------------------------------------------------- generate_ad_details

\* Lines 59-63: the first invocation and its parse.
generate_ad_details_first ==
    /\ pc = "ad_details_first"
    /\ Invoke("ad_details", AdPrompt(request), 1)
    /\ \/ ExternalError
       \/ \E text \in AdResponses :
            /\ response' = text
            /\ IF AdDetailsFails(text)
               THEN ToRetry("ad_details_retry")
               ELSE /\ ad_details' = <<ParseAdDetails(text)>>
                    /\ pc' = "generate_scenes"
                    /\ UNCHANGED <<session_state, request, scenes_output, txt2img_prompts,
                                   img2vid_prompts, i, error, storyboard>>

\* Variant: the retry parses response.text again instead of
\* retry_response.text.
generate_ad_details_retry_parses_first ==
    /\ pc = "ad_details_retry"
    /\ Invoke("ad_details", AdRetryPrompt(prompt, request), attempt + 1)
    /\ \/ ExternalError
       \/ \E text \in AdResponses :
            /\ response' = text
            /\ IF AdDetailsFails(response)
               THEN Propagate(ParserException(response))
               ELSE /\ ad_details' = <<ParseAdDetails(response)>>
                    /\ pc' = "generate_scenes"
                    /\ UNCHANGED <<session_state, request, scenes_output, txt2img_prompts,
                                   img2vid_prompts, i, error, storyboard>>

\* Lines 64-91: the except clause, the one retry and its parse.
generate_ad_details_retry ==
    /\ pc = "ad_details_retry"
    /\ Invoke("ad_details", AdRetryPrompt(prompt, request), attempt + 1)
    /\ \/ ExternalError
       \/ \E text \in AdResponses :
            /\ response' = text
            /\ IF AdDetailsFails(text)
               THEN Propagate(ParserException(text))
               ELSE /\ ad_details' = <<ParseAdDetails(text)>>
                    /\ pc' = "generate_scenes"
                    /\ UNCHANGED <<session_state, request, scenes_output, txt2img_prompts,
                                   img2vid_prompts, i, error, storyboard>>

\* ------------------------------------------------------ generate_scenes

\* Variant: the return statement is indented into the loop body, so the
\* stage returns after its first scene.
generate_scenes_return_in_loop ==
    /\ pc = "generate_scenes"
    /\ IF i < NumScenes(ad_details[1], InputScenes(request.scenes)) /\ i < 1
       THEN i' = i + 1 /\ pc' = "scene_first"
       ELSE i' = 0 /\ pc' = "generate_txt2img"
    /\ UNCHANGED <<session_state, request, records, prompt, response, attempt, total_calls,
                   last_call, error, storyboard>>

\* Lines 42-50: the loop over range(1, num_scenes + 1) and the return.
generate_scenes ==
    /\ pc = "generate_scenes"
    /\ IF i < NumScenes(ad_details[1], InputScenes(request.scenes))
       THEN i' = i + 1 /\ pc' = "scene_first"
       ELSE i' = 0 /\ pc' = "generate_txt2img"
    /\ UNCHANGED <<session_state, request, records, prompt, response, attempt, total_calls,
                   last_call, error, storyboard>>

\* Variant: the environment of the previous Scene Output is carried into the
\* prompt of the next scene.
generate_single_scene_first_threaded ==
    /\ pc = "scene_first"
    /\ Invoke("scene",
              [ScenePrompt(i, InputScene(InputScenes(request.scenes), i),
                           ad_details[1])
                 EXCEPT !.input.environment =
                    IF i > 1 THEN scenes_output[i - 1].environment ELSE @], 1)
    /\ \/ ExternalError
       \/ \E text \in SceneResponses :
            /\ response' = text
            /\ IF SceneOutputFails(text)
               THEN ToRetry("scene_retry")
               ELSE /\ scenes_output' =
                         Append(scenes_output, ParseSceneOutput(text))
                    /\ pc' = "generate_scenes"
                    /\ UNCHANGED <<session_state, request, ad_details, txt2img_prompts,
                                   img2vid_prompts, i, error, storyboard>>

\* Lines 129-133: the first invocation for scene i; the parsed record is
\* returned as it is.
generate_single_scene_first ==
    /\ pc = "scene_first"
    /\ Invoke("scene",
              ScenePrompt(i, InputScene(InputScenes(request.scenes), i),
                          ad_details[1]), 1)
    /\ \/ ExternalError
       \/ \E text \in SceneResponses :
            /\ response' = text
            /\ IF SceneOutputFails(text)
               THEN ToRetry("scene_retry")
               ELSE /\ scenes_output' =
                         Append(scenes_output, ParseSceneOutput(text))
                    /\ pc' = "generate_scenes"
                    /\ UNCHANGED <<session_state, request, ad_details, txt2img_prompts,
                                   img2vid_prompts, i, error, storyboard>>

\* Variant: the retry sits in a loop that repeats until a response parses.
generate_single_scene_retry_again ==
    /\ pc = "scene_retry"
    /\ Invoke("scene", SceneRetryPrompt(prompt, i), attempt + 1)
    /\ \/ ExternalError
       \/ \E text \in SceneResponses :
            /\ response' = text
            /\ IF SceneOutputFails(text)
               THEN ToRetry("scene_retry")
               ELSE /\ scenes_output' =
                         Append(scenes_output, ParseSceneOutput(text))
                    /\ pc' = "generate_scenes"
                    /\ UNCHANGED <<session_state, request, ad_details, txt2img_prompts,
                                   img2vid_prompts, i, error, storyboard>>

\* Variant: generate_scenes catches the failure of a scene and goes on with
\* the next one.
generate_single_scene_retry_skip ==
    /\ pc = "scene_retry"
    /\ Invoke("scene", SceneRetryPrompt(prompt, i), attempt + 1)
    /\ \/ ExternalError
       \/ \E text \in SceneResponses :
            /\ response' = text
            /\ IF SceneOutputFails(text)
               THEN ToRetry("generate_scenes")
               ELSE /\ scenes_output' =
                         Append(scenes_output, ParseSceneOutput(text))
                    /\ pc' = "generate_scenes"
                    /\ UNCHANGED <<session_state, request, ad_details, txt2img_prompts,
                                   img2vid_prompts, i, error, storyboard>>

\* Variant: the failure of the retry is wrapped in an error that names the
\* stage and the scene.
generate_single_scene_retry_wrapped ==
    /\ pc = "scene_retry"
    /\ Invoke("scene", SceneRetryPrompt(prompt, i), attempt + 1)
    /\ \/ ExternalError
       \/ \E text \in SceneResponses :
            /\ response' = text
            /\ IF SceneOutputFails(text)
               THEN Propagate([kind |-> "GenerationError", stage |-> "scene",
                               scene_index |-> i, completion |-> <<text>>])
               ELSE /\ scenes_output' =
                         Append(scenes_output, ParseSceneOutput(text))
                    /\ pc' = "generate_scenes"
                    /\ UNCHANGED <<session_state, request, ad_details, txt2img_prompts,
                                   img2vid_prompts, i, error, storyboard>>

\* Lines 134-161: the except clause, the one retry and its parse.
generate_single_scene_retry ==
    /\ pc = "scene_retry"
    /\ Invoke("scene", SceneRetryPrompt(prompt, i), attempt + 1)
    /\ \/ ExternalError
       \/ \E text \in SceneResponses :
            /\ response' = text
            /\ IF SceneOutputFails(text)
               THEN Propagate(ParserException(text))
               ELSE /\ scenes_output' =
                         Append(scenes_output, ParseSceneOutput(text))
                    /\ pc' = "generate_scenes"
                    /\ UNCHANGED <<session_state, request, ad_details, txt2img_prompts,
                                   img2vid_prompts, i, error, storyboard>>

\* --------------------------------------- generate_text_to_image_prompts

\* Lines 169-174: the loop over scenes and the return.
generate_text_to_image_prompts ==
    /\ pc = "generate_txt2img"
    /\ IF i < Len(scenes_output)
       THEN i' = i + 1 /\ pc' = "txt2img_first"
       ELSE i' = 0 /\ pc' = "generate_img2vid"
    /\ UNCHANGED <<session_state, request, records, prompt, response, attempt, total_calls,
                   last_call, error, storyboard>>

\* Variant: the parse of the first response is not returned, the retry
\* follows whatever the first response was.
generate_single_txt2img_prompt_first_no_return ==
    /\ pc = "txt2img_first"
    /\ Invoke("txt2img", Txt2ImgPrompt(scenes_output[i]), 1)
    /\ \/ ExternalError
       \/ \E text \in PromptResponses :
            /\ response' = text
            /\ ToRetry("txt2img_retry")

\* Lines 246-253: the first invocation for scenes[i].
generate_single_txt2img_prompt_first ==
    /\ pc = "txt2img_first"
    /\ Invoke("txt2img", Txt2ImgPrompt(scenes_output[i]), 1)
    /\ \/ ExternalError
       \/ \E text \in PromptResponses :
            /\ response' = text
            /\ IF PromptFails(text)
               THEN ToRetry("txt2img_retry")
               ELSE /\ txt2img_prompts' =
                         Append(txt2img_prompts,
                                WithSceneNumber(ParsePrompt(text),
                                                scenes_output[i]))
                    /\ pc' = "generate_txt2img"
                    /\ UNCHANGED <<session_state, request, ad_details, scenes_output,
                                   img2vid_prompts, i, error, storyboard>>

\* Variant: when the retry does not parse either, the JSON example of the
\* retry prompt is returned as a default record.
generate_single_txt2img_prompt_retry_default ==
    /\ pc = "txt2img_retry"
    /\ Invoke("txt2img",
              SceneRetryPrompt(prompt, scenes_output[i].scene_number),
              attempt + 1)
    /\ \/ ExternalError
       \/ \E text \in PromptResponses :
            /\ response' = text
            /\ txt2img_prompts' =
                 Append(txt2img_prompts,
                        WithSceneNumber(
                            ParsePrompt(IF PromptFails(text)
                                        THEN PromptJson("1", "a", "Anime")
                                        ELSE text),
                            scenes_output[i]))
            /\ pc' = "generate_txt2img"
            /\ UNCHANGED <<session_state, request, ad_details, scenes_output,
                           img2vid_prompts, i, error, storyboard>>

\* Lines 254-287: the except clause, the one retry and its parse.
generate_single_txt2img_prompt_retry ==
    /\ pc = "txt2img_retry"
    /\ Invoke("txt2img",
              SceneRetryPrompt(prompt, scenes_output[i].scene_number),
              attempt + 1)
    /\ \/ ExternalError
       \/ \E text \in PromptResponses :
            /\ response' = text
            /\ IF PromptFails(text)
               THEN Propagate(ParserException(text))
               ELSE /\ txt2img_prompts' =
                         Append(txt2img_prompts,
                                WithSceneNumber(ParsePrompt(text),
                                                scenes_output[i]))
                    /\ pc' = "generate_txt2img"
                    /\ UNCHANGED <<session_state, request, ad_details, scenes_output,
                                   img2vid_prompts, i, error, storyboard>>

\* -------------------------------------- generate_image_to_video_prompts

\* Variant: the return statement is indented into the loop body, so the
\* stage returns after its first pair.
generate_image_to_video_prompts_return_in_loop ==
    /\ pc = "generate_img2vid"
    /\ IF i < ZipLen(scenes_output, txt2img_prompts) /\ i < 1
       THEN i' = i + 1 /\ pc' = "img2vid_first"
       ELSE i' = 0 /\ pc' = "assemble"
    /\ UNCHANGED <<session_state, request, records, prompt, response, attempt, total_calls,
                   last_call, error, storyboard>>

\* Variant: the stage compares the lengths of its two lists first and raises
\* a ValueError when they differ.
generate_image_to_video_prompts_strict ==
    /\ pc = "generate_img2vid"
    /\ IF Len(scenes_output) # Len(txt2img_prompts)
       THEN /\ pc' = "raised"
            /\ error' = <<[kind |-> "ValueError", completion |-> <<>>]>>
            /\ i' = i
       ELSE /\ IF i < ZipLen(scenes_output, txt2img_prompts)
               THEN i' = i + 1 /\ pc' = "img2vid_first"
               ELSE i' = 0 /\ pc' = "assemble"
            /\ error' = error
    /\ UNCHANGED <<session_state, request, records, prompt, response, attempt,
                   total_calls, last_call, storyboard>>

\* Lines 295-300: the loop over zip(scenes, txt2img_prompts) and the return.
generate_image_to_video_prompts ==
    /\ pc = "generate_img2vid"
    /\ IF i < ZipLen(scenes_output, txt2img_prompts)
       THEN i' = i + 1 /\ pc' = "img2vid_first"
       ELSE i' = 0 /\ pc' = "assemble"
    /\ UNCHANGED <<session_state, request, records, prompt, response, attempt, total_calls,
                   last_call, error, storyboard>>

\* Variant: line 390 assigns to txt2img_prompt instead of img2vid_prompt, so
\* the parsed scene number is written into the text-to-image prompt.
generate_single_img2vid_prompt_first_writes_txt2img ==
    /\ pc = "img2vid_first"
    /\ Invoke("img2vid", Img2VidPrompt(scenes_output[i], txt2img_prompts[i]), 1)
    /\ \/ ExternalError
       \/ \E text \in PromptResponses :
            /\ response' = text
            /\ IF PromptFails(text)
               THEN ToRetry("img2vid_retry")
               ELSE /\ img2vid_prompts' =
                         Append(img2vid_prompts, ParsePrompt(text))
                    /\ txt2img_prompts' =
                         [txt2img_prompts EXCEPT ![i].scene_number =
                             ParsePrompt(text).scene_number]
                    /\ pc' = "generate_img2vid"
                    /\ UNCHANGED <<session_state, request, ad_details, scenes_output,
                                   i, error, storyboard>>

\* Lines 384-391: the first invocation for the i-th pair.
generate_single_img2vid_prompt_first ==
    /\ pc = "img2vid_first"
    /\ Invoke("img2vid", Img2VidPrompt(scenes_output[i], txt2img_prompts[i]), 1)
    /\ \/ ExternalError
       \/ \E text \in PromptResponses :
            /\ response' = text
            /\ IF PromptFails(text)
               THEN ToRetry("img2vid_retry")
               ELSE /\ img2vid_prompts' =
                         Append(img2vid_prompts,
                                WithSceneNumber(ParsePrompt(text),
                                                scenes_output[i]))
                    /\ pc' = "generate_img2vid"
                    /\ UNCHANGED <<session_state, request, ad_details, scenes_output,
                                   txt2img_prompts, i, error, storyboard>>

\* Lines 392-426: the except clause, the one retry and its parse.
generate_single_img2vid_prompt_retry ==
    /\ pc = "img2vid_retry"
    /\ Invoke("img2vid",
              SceneRetryPrompt(prompt, scenes_output[i].scene_number),
              attempt + 1)
    /\ \/ ExternalError
       \/ \E text \in PromptResponses :
            /\ response' = text
            /\ IF PromptFails(text)
               THEN Propagate(ParserException(text))
               ELSE /\ img2vid_prompts' =
                         Append(img2vid_prompts,
                                WithSceneNumber(ParsePrompt(text),
                                                scenes_output[i]))
                    /\ pc' = "generate_img2vid"
                    /\ UNCHANGED <<session_state, request, ad_details, scenes_output,
                                   txt2img_prompts, i, error, storyboard>>

\* ----------------------------------------------------------- generate

\* main.py lines 56-64: StoryboardOutput(...) is built and returned.
generate_return ==
    /\ pc = "assemble"
    /\ storyboard' =
         <<[ad_details |-> ad_details[1], scenes |-> scenes_output,
            txt2img_prompts |-> txt2img_prompts,
            img2vid_prompts |-> img2vid_prompts]>>
    /\ pc' = "returned"
    /\ UNCHANGED <<session_state, request, records, i, prompt, response, attempt, total_calls,
                   last_call, error>>

Next ==
    \/ button_handler
    \/ generate_ad_details_first
    \/ generate_ad_details_retry
    \/ generate_scenes
    \/ generate_single_scene_first
    \/ generate_single_scene_retry
    \/ generate_text_to_image_prompts
    \/ generate_single_txt2img_prompt_first
    \/ generate_single_txt2img_prompt_retry
    \/ generate_image_to_video_prompts
    \/ generate_single_img2vid_prompt_first
    \/ generate_single_img2vid_prompt_retry
    \/ generate_return

Spec == Init /\ [][Next]_vars

\* The run is one sequential thread: a step that can be taken is taken,
\* and every completion invocation returns or raises.
FairSpec == Spec /\ WF_vars(Next)

\* ------------------------ generate_image_to_video_prompts called alone

\* The Scene Outputs and Text-to-Image Prompts a caller can hold: the
\* records the parsers give for the responses explored.
SceneRecords ==
    {ParseSceneOutput(text) : text \in {SceneJson("1", "a"), SceneJson("2", "b")}}

PromptRecords ==
    {ParsePrompt(text) : text \in {t \in PromptResponses : ~PromptFails(t)}}

\* Lists of at most n elements of S.
ListsUpTo(S, n) == UNION {[1 .. m -> S] : m \in 0 .. n}

\* generate_image_to_video_prompts(scenes, txt2img_prompts) called with any
\* two lists, of equal or different lengths.
InitImg2Vid ==
    /\ session_state = <<>>
    /\ request = NoRequest
    /\ pc = "generate_img2vid"
    /\ ad_details = <<>>
    /\ scenes_output \in ListsUpTo(SceneRecords, MaxScenes)
    /\ txt2img_prompts \in ListsUpTo(PromptRecords, MaxScenes)
    /\ img2vid_prompts = <<>>
    /\ i = 0
    /\ prompt = NoPrompt
    /\ response = NoText
    /\ attempt = 0
    /\ total_calls = 0
    /\ last_call = [stage |-> "none", index |-> 0, attempt |-> 0]
    /\ error = <<>>
    /\ storyboard = <<>>

\* The stage alone: it has returned when pc is "assemble".
NextImg2Vid ==
    \/ generate_image_to_video_prompts
    \/ generate_single_img2vid_prompt_first
    \/ generate_single_img2vid_prompt_retry

SpecImg2Vid == InitImg2Vid /\ [][NextImg2Vid]_vars

\* ----------------------------------------------------------- properties

\* The resolved scene count of the run.
N == ad_details[1].number_of_scenes

\* generate_scenes has returned its list to generate.
ScenesReturned ==
    \/ pc \in {"generate_txt2img", "txt2img_first", "txt2img_retry",
               "generate_img2vid", "img2vid_first", "img2vid_retry",
               "assemble", "returned"}
    \/ pc = "raised" /\ last_call.stage \in {"txt2img", "img2vid"}

\* generate_text_to_image_prompts has returned its list to generate.
Txt2ImgReturned ==
    \/ pc \in {"generate_img2vid", "img2vid_first", "img2vid_retry",
               "assemble", "returned"}
    \/ pc = "raised" /\ last_call.stage = "img2vid"

\* generate_image_to_video_prompts has returned its list to generate.
Img2VidReturned == pc \in {"assemble", "returned"}

\* The last response does not validate against the shape of the stage
\* that received it.
LastResponseFails ==
    CASE last_call.stage = "ad_details" -> AdDetailsFails(response)
      [] last_call.stage = "scene" -> SceneOutputFails(response)
      [] last_call.stage \in {"txt2img", "img2vid"} -> PromptFails(response)
      [] OTHER -> FALSE

\* The structured call under way has used up its retry without a record.
BothAttemptsFailed == last_call.attempt >= 2 /\ LastResponseFails

\* C1: the Scene Outputs generate_scenes returns carry the scene numbers
\* 1..N in list order: the output at position k has scene_number k.
C1_SceneNumbersArePositions ==
    ScenesReturned =>
        \A k \in DOMAIN scenes_output : scenes_output[k].scene_number = k

\* C2: a structured-generation call never makes a third completion
\* invocation, in any stage and whatever the responses are.
C2_AtMostTwoInvocations == attempt <= 2 /\ last_call.attempt <= 2

C2_Witness ==
    /\ pc = "raised"
    /\ last_call = [stage |-> "img2vid", index |-> 1, attempt |-> 2]
    /\ LastResponseFails

\* C3: a retry invocation that follows a failed first parse and receives a
\* validating response makes the call return the record parsed from that
\* second response (prompt records with scene_number set to the source
\* scene's) and raises no error.
C3_RetryStep ==
    /\ total_calls' = total_calls + 1
    /\ last_call'.attempt = 2
    /\ LastResponseFails
    /\ ~LastResponseFails'

C3_RetryResultReturned ==
    [][C3_RetryStep =>
        /\ error' = <<>>
        /\ CASE pc = "ad_details_retry" ->
                  /\ pc' = "generate_scenes"
                  /\ ad_details' = <<ParseAdDetails(response')>>
             [] pc = "scene_retry" ->
                  /\ pc' = "generate_scenes"
                  /\ scenes_output' =
                       Append(scenes_output, ParseSceneOutput(response'))
             [] pc = "txt2img_retry" ->
                  /\ pc' = "generate_txt2img"
                  /\ txt2img_prompts' =
                       Append(txt2img_prompts,
                              [ParsePrompt(response') EXCEPT
                                 !.scene_number = scenes_output[i].scene_number])
             [] pc = "img2vid_retry" ->
                  /\ pc' = "generate_img2vid"
                  /\ img2vid_prompts' =
                       Append(img2vid_prompts,
                              [ParsePrompt(response') EXCEPT
                                 !.scene_number = scenes_output[i].scene_number])
             [] OTHER -> FALSE]_vars

C3_Witness ==
    /\ last_call = [stage |-> "img2vid", index |-> 1, attempt |-> 2]
    /\ pc = "generate_img2vid"
    /\ Len(img2vid_prompts) = 1
    /\ response.obj["scene_number"] # IntText(scenes_output[1].scene_number)

\* C4: when the retry response fails too, the call ends in an error that
\* reaches the caller of generate: nothing is returned, no record is added
\* for that scene, and no stage catches the error.
C4_SecondFailurePropagates ==
    BothAttemptsFailed =>
        /\ pc = "raised"
        /\ error # <<>>
        /\ storyboard = <<>>
        /\ (last_call.stage = "ad_details" => ad_details = <<>>)
        /\ (last_call.stage = "scene" =>
                Len(scenes_output) = last_call.index - 1)
        /\ (last_call.stage = "txt2img" =>
                Len(txt2img_prompts) = last_call.index - 1)
        /\ (last_call.stage = "img2vid" =>
                Len(img2vid_prompts) = last_call.index - 1)

C4_Witness ==
    /\ last_call = [stage |-> "txt2img", index |-> MaxScenes, attempt |-> 2]
    /\ response.json
    /\ LastResponseFails
    /\ error[1].kind = "OutputParserException"

\* C5: generate ends either by returning a complete storyboard (the Ad
\* Details, one Scene Output per scene index, and a text-to-image and an
\* image-to-video prompt for every Scene Output) or by raising one error;
\* it never does both and never returns a storyboard with a shorter list.
C5_CompleteOrError ==
    /\ (storyboard # <<>> <=> pc = "returned")
    /\ (error # <<>> <=> pc = "raised")
    /\ storyboard # <<>> =>
         /\ ad_details # <<>>
         /\ storyboard[1].ad_details = ad_details[1]
         /\ DOMAIN storyboard[1].scenes = 1 .. N
         /\ Len(storyboard[1].txt2img_prompts) = Len(storyboard[1].scenes)
         /\ Len(storyboard[1].img2vid_prompts) = Len(storyboard[1].scenes)

C5_Witness ==
    /\ pc = "returned"
    /\ Len(storyboard[1].img2vid_prompts) = MaxScenes
    /\ total_calls > 1 + 3 * MaxScenes

\* C6: when its per-scene calls succeed, generate_scenes returns one Scene
\* Output per index 1..N of ad_details.number_of_scenes, the k-th produced
\* by the call for index k, whatever the length of the input scene list.
C6_OneScenePerIndex ==
    /\ (pc = "generate_scenes" /\ last_call.stage = "scene" =>
            last_call.index = i /\ Len(scenes_output) = i)
    /\ (ScenesReturned =>
            /\ DOMAIN scenes_output = 1 .. N
            /\ (N >= 0 => Len(scenes_output) = N))

C6_Witness ==
    /\ ScenesReturned
    /\ Len(scenes_output) = MaxScenes
    /\ request.scenes # <<>>
    /\ Len(InputScenes(request.scenes)) = 1

\* C7: generate_image_to_video_prompts returns one prompt per scene, the
\* prompt at index k carrying scenes[k].scene_number whatever scene number
\* the response held, on the first-attempt path and on the retry path.
C7_Img2VidSceneNumbers ==
    /\ \A k \in DOMAIN img2vid_prompts :
            img2vid_prompts[k].scene_number = scenes_output[k].scene_number
    /\ (Img2VidReturned =>
            Len(img2vid_prompts) = ZipLen(scenes_output, txt2img_prompts))
    /\ (Img2VidReturned /\ Len(scenes_output) = Len(txt2img_prompts) =>
            Len(img2vid_prompts) = Len(scenes_output))

C7_Witness ==
    /\ Img2VidReturned
    /\ Len(img2vid_prompts) = MaxScenes
    /\ last_call = [stage |-> "img2vid", index |-> MaxScenes, attempt |-> 2]
    /\ response.obj["scene_number"] #
           IntText(scenes_output[MaxScenes].scene_number)

\* C8: generate_text_to_image_prompts returns one prompt per Scene Output,
\* in order, the prompt at index k carrying scenes[k].scene_number whatever
\* scene number the response held, on both paths.
C8_Txt2ImgSceneNumbers ==
    /\ Len(txt2img_prompts) <= Len(scenes_output)
    /\ \A k \in DOMAIN txt2img_prompts :
            txt2img_prompts[k].scene_number = scenes_output[k].scene_number
    /\ (pc = "generate_txt2img" /\ last_call.stage = "txt2img" =>
            last_call.index = i /\ Len(txt2img_prompts) = i)
    /\ (Txt2ImgReturned => Len(txt2img_prompts) = Len(scenes_output))

C8_Witness ==
    /\ Txt2ImgReturned
    /\ Len(txt2img_prompts) = MaxScenes
    /\ last_call = [stage |-> "txt2img", index |-> MaxScenes, attempt |-> 1]
    /\ response.obj["scene_number"] #
           IntText(scenes_output[MaxScenes].scene_number)

\* C9: the invocations follow the stages: a scene invocation only with the
\* Ad Details resolved, a text-to-image invocation only with all N Scene
\* Outputs present, an image-to-video invocation only with the
\* text-to-image prompts of all scenes present.
C9_StagesInOrder ==
    /\ (last_call.stage \in {"scene", "txt2img", "img2vid"} =>
            ad_details # <<>>)
    /\ (last_call.stage = "scene" => txt2img_prompts = <<>>)
    /\ (last_call.stage \in {"txt2img", "img2vid"} =>
            DOMAIN scenes_output = 1 .. N)
    /\ (last_call.stage = "txt2img" => img2vid_prompts = <<>>)
    /\ (last_call.stage = "img2vid" =>
            /\ Len(txt2img_prompts) = Len(scenes_output)
            /\ last_call.index <= Len(txt2img_prompts))

C9_Witness ==
    /\ last_call = [stage |-> "img2vid", index |-> 1, attempt |-> 1]
    /\ Len(txt2img_prompts) = MaxScenes

\* C10: once a structured call has failed on its retry too, no step of the
\* run makes another completion invocation or starts another scene or stage.
C10_NoCallAfterFailure ==
    [][BothAttemptsFailed =>
          /\ total_calls' = total_calls
          /\ pc' = pc
          /\ i' = i]_vars

C10_Witness ==
    /\ pc = "raised"
    /\ last_call = [stage |-> "scene", index |-> 1, attempt |-> 2]
    /\ LastResponseFails
    /\ error[1].kind = "OutputParserException"
    /\ N = MaxScenes

\* The error has an attribute of this name with this value.
ErrorNames(name, value) == GetAttr(error[1], name) = <<value>>

\* C11 (as claimed): the error of a run that fails after the single retry
\* names the stage that failed and, for a per-scene stage, the scene index.
C11_ErrorNamesStageAndScene ==
    pc = "raised" /\ BothAttemptsFailed =>
        /\ ErrorNames("stage", last_call.stage)
        /\ (last_call.stage # "ad_details" =>
                ErrorNames("scene_index", last_call.index))

\* C11 (amended): the error of a run whose retry response does not parse is
\* the exception of that parse, unchanged: it carries the completion of the
\* retry (nothing, when reading the response raised) and neither the stage
\* nor the scene index.
C11_ErrorIsParserException ==
    pc = "raised" /\ BothAttemptsFailed /\ error[1] # CapabilityError =>
        /\ error[1] = ParserException(response)
        /\ DOMAIN error[1] = {"kind", "completion"}
        /\ error[1].completion \in {<<>>, <<response>>}

C11_Witness ==
    /\ pc = "raised"
    /\ last_call = [stage |-> "scene", index |-> MaxScenes, attempt |-> 2]
    /\ error[1].kind = "OutputParserException"
    /\ error[1].completion = <<response>>

\* The scene list of the request, empty when it is None.
RequestScenes == IF request.scenes = <<>> THEN <<>> ELSE request.scenes[1]

\* The non-empty user recommendation the request holds for scene k, if any.
GivenOverride(k) ==
    IF k \in DOMAIN RequestScenes
       /\ RequestScenes[k].user_recommendation \notin {<<>>, <<"">>}
    THEN RequestScenes[k].user_recommendation
    ELSE <<>>

\* C12: the prompt of scene i's expansion, on the first attempt and on the
\* retry, holds the critical section with the override of Scene Input i
\* unmodified when that input has a non-empty override, and no critical
\* section otherwise.
C12_OverrideInScenePrompt ==
    last_call.stage = "scene" =>
        /\ prompt.kind = "scene"
        /\ prompt.scene_number = IntText(last_call.index)
        /\ prompt.priority = GivenOverride(last_call.index)
        /\ (prompt.retry # <<>> <=> last_call.attempt = 2)

C12_Witness ==
    /\ last_call = [stage |-> "scene", index |-> 1, attempt |-> 2]
    /\ prompt.retry # <<>>
    /\ prompt.priority = <<"rec">>

\* C13: when the Scene Input that scene i came from carries an override,
\* the prompt of scene i's text-to-image sub-step holds that override in
\* its priority section.
C13_OverrideInTxt2ImgPrompt ==
    last_call.stage = "txt2img" =>
        prompt.priority = GivenOverride(last_call.index)

\* C14: in a full run the scene count of the request decides: a request
\* with number_of_scenes = n and an empty or missing scene list yields
\* exactly n Scene Outputs, whatever the Ad Details response holds.
C14_RequestCountDecides ==
    ScenesReturned /\ request.number_of_scenes # <<>> /\ RequestScenes = <<>> =>
        Len(scenes_output) = request.number_of_scenes[1]

\* C15: every text field the user supplied has the user's value in the
\* resolved Ad Details; only unspecified fields hold what the model wrote.
C15_SuppliedFieldsKept ==
    ad_details # <<>> =>
        \A f \in AdTextFields :
            Truthy(request[f]) => ad_details[1][f] = request[f][1]

\* The last prompt as it was first composed, before the retry section.
FirstPrompt == [prompt EXCEPT !.retry = <<>>]

\* The scene number interpolated into the retry section of the last prompt.
RetryIs(scene_number) ==
    prompt.retry \in {<<>>, <<[scene_number |-> IntText(scene_number)]>>}

\* The last invocation was answered and its response validated.
LastCallParsed == error = <<>> /\ ~LastResponseFails

C17_StyleDefaultsFilled ==
    LET k == last_call.index
        returned == IF last_call.stage = "txt2img" THEN txt2img_prompts
                    ELSE img2vid_prompts
        Default(f) == IF f = "style_type" THEN "Photorealistic CGI"
                      ELSE "Gregory Crewdson"
    IN  /\ last_call.stage \in {"txt2img", "img2vid"}
        /\ error = <<>>
        /\ ~response.blocked /\ response.json
        /\ {"style_type", "style_reference"} \ DOMAIN response.obj # {}
        /\ PromptFields \ {"style_type", "style_reference"}
              \subseteq DOMAIN response.obj
        /\ IsIntText(response.obj["scene_number"])
        /\ \A c \in DOMAIN response.obj["characters"] :
              CharacterFields \subseteq DOMAIN response.obj["characters"][c]
        => /\ pc \notin {"txt2img_retry", "img2vid_retry", "raised"}
           /\ attempt = last_call.attempt
           /\ Len(returned) = k
           /\ \A f \in {"style_type", "style_reference"} :
                 returned[k][f] = IF f \in DOMAIN response.obj
                                  THEN response.obj[f] ELSE Default(f)

C17_Witness ==
    /\ last_call = [stage |-> "img2vid", index |-> 1, attempt |-> 1]
    /\ error = <<>>
    /\ DOMAIN response.obj = PromptFields \ {"style_reference"}
    /\ Len(img2vid_prompts) = 1
    /\ img2vid_prompts[1].style_type = "Anime"
    /\ img2vid_prompts[1].style_reference = "Gregory Crewdson"
    /\ txt2img_prompts[1].style_type = "Photorealistic CGI"

\* C18: when the first response of a structured-generation call validates,
\* the call makes that one invocation only, composes no retry prompt, and
\* returns the record parsed from the first response (prompt records with
\* scene_number set to the source scene's).
C18_FirstSuccessNoRetry ==
    LET k == last_call.index
    IN  last_call.attempt = 1 /\ LastCallParsed =>
            /\ attempt = 1
            /\ prompt.retry = <<>>
            /\ pc \notin {"ad_details_retry", "scene_retry", "txt2img_retry",
                          "img2vid_retry", "raised"}
            /\ CASE last_call.stage = "ad_details" ->
                      ad_details = <<ParseAdDetails(response)>>
                 [] last_call.stage = "scene" ->
                      /\ Len(scenes_output) = k
                      /\ scenes_output[k] = ParseSceneOutput(response)
                 [] last_call.stage = "txt2img" ->
                      /\ Len(txt2img_prompts) = k
                      /\ txt2img_prompts[k] =
                           [ParsePrompt(response) EXCEPT
                              !.scene_number = scenes_output[k].scene_number]
                 [] last_call.stage = "img2vid" ->
                      /\ Len(img2vid_prompts) = k
                      /\ img2vid_prompts[k] =
                           [ParsePrompt(response) EXCEPT
                              !.scene_number = scenes_output[k].scene_number]
                 [] OTHER -> FALSE

C18_Witness ==
    /\ last_call = [stage |-> "txt2img", index |-> MaxScenes, attempt |-> 1]
    /\ Len(txt2img_prompts) = MaxScenes
    /\ total_calls = 1 + 2 * MaxScenes
    /\ pc = "generate_img2vid"

\* C19: the prompt of scene k shows, field by field, the request's scene
\* input at list position k when the list has at least k entries, and every
\* field as unspecified otherwise; no other position's input appears in it.
C19_OwnInputOrUnspecified ==
    LET k == last_call.index
    IN  last_call.stage = "scene" =>
            \A f \in SceneInputFields :
                prompt.input[f] =
                    IF /\ k <= Len(RequestScenes)
                       /\ RequestScenes[k][f] \notin {<<>>, <<"">>}
                    THEN RequestScenes[k][f][1]
                    ELSE IF f = "user_recommendation"
                         THEN "Not specified (follow normal generation)"
                         ELSE "Not specified"

C19_Witness ==
    /\ last_call = [stage |-> "scene", index |-> 2, attempt |-> 1]
    /\ Len(RequestScenes) = 1
    /\ RequestScenes[1].characters = <<"cast">>
    /\ prompt.input.characters = "Not specified"
    /\ Len(scenes_output) = 2

\* C20: in the prompt of generate_ad_details every request field whose
\* value is absent is rendered as "Not specified", the scene count included.
C20_AbsentIsNotSpecified ==
    last_call.stage = "ad_details" =>
        /\ \A f \in AdTextFields :
              request[f] = <<>> => prompt.input[f] = "Not specified"
        /\ (request.number_of_scenes = <<>> =>
                prompt.number_of_scenes = "Not specified")

\* C21: when a completion invocation itself raises, on the first attempt or
\* on the retry, the call is over: the run is in its raised state as after
\* a final parse failure (nothing returned, no record added for the scene),
\* the raising invocation is the last one of the call, and no step of the
\* run, so no further invocation, follows an error.
C21_AfterExternalError ==
    error = <<CapabilityError>> =>
        /\ pc = "raised"
        /\ storyboard = <<>>
        /\ attempt = last_call.attempt
        /\ (last_call.stage = "ad_details" => ad_details = <<>>)
        /\ (last_call.stage = "scene" =>
                Len(scenes_output) = last_call.index - 1)
        /\ (last_call.stage = "txt2img" =>
                Len(txt2img_prompts) = last_call.index - 1)
        /\ (last_call.stage = "img2vid" =>
                Len(img2vid_prompts) = last_call.index - 1)

C21_ExternalErrorPropagates ==
    []C21_AfterExternalError /\ [][error = <<>>]_vars

C21_Witness ==
    /\ error = <<CapabilityError>>
    /\ pc = "raised"
    /\ last_call = [stage |-> "scene", index |-> 2, attempt |-> 1]
    /\ total_calls = 3

\* C22: no step of the run changes a record an earlier stage produced: the
\* Ad Details record, every Scene Output and every Text-to-Image Prompt keep
\* the field values they were produced with (the lists only grow at the end).
C22_Kept(list) ==
    /\ Len(list') >= Len(list)
    /\ \A k \in DOMAIN list : list'[k] = list[k]

C22_EarlierRecordsUnchanged ==
    [][/\ (ad_details # <<>> => ad_details' = ad_details)
       /\ C22_Kept(scenes_output)
       /\ C22_Kept(txt2img_prompts)
       /\ C22_Kept(img2vid_prompts)]_vars

C22_Witness ==
    /\ pc = "returned"
    /\ Len(img2vid_prompts) = MaxScenes
    /\ storyboard[1].ad_details = ad_details[1]
    /\ storyboard[1].scenes = scenes_output
    /\ storyboard[1].txt2img_prompts = txt2img_prompts
    /\ \E k \in DOMAIN img2vid_prompts :
          /\ scenes_output[k].scene_number # k
          /\ img2vid_prompts[k].action # txt2img_prompts[k].action

\* C23: a user recommendation typed for scene k in the form is carried by
\* the Scene at position k of the request the button handler passes to
\* generate, and so appears in the prompt of scene k.
C23_FormOverrideInRequest ==
    session_state # <<>> /\ pc \notin {"button", "warned"} =>
        \A k \in 1 .. session_state[1].number_of_scenes :
            LET typed == session_state[1].scenes[k].user_recommendation
            IN  Truthy(typed) =>
                    /\ RequestScenes[k].user_recommendation = typed
                    /\ (last_call.stage = "scene" /\ last_call.index = k =>
                            prompt.priority = typed)

\* C24: called with lists of different lengths, generate_image_to_video_prompts
\* raises nothing of its own (an error comes from an invocation only), pairs
\* scenes[k] with txt2img_prompts[k], makes no invocation beyond the shorter
\* list, and returns as many prompts as the shorter list has elements.
C24_ShorterListDecides ==
    LET shorter == IF Len(scenes_output) <= Len(txt2img_prompts)
                   THEN Len(scenes_output) ELSE Len(txt2img_prompts)
        k == last_call.index
    IN  /\ i <= shorter
        /\ total_calls <= 2 * shorter
        /\ Len(img2vid_prompts) <= shorter
        /\ (pc = "assemble" => Len(img2vid_prompts) = shorter /\ error = <<>>)
        /\ (pc = "raised" =>
                /\ total_calls >= 1
                /\ error[1] = CapabilityError \/ BothAttemptsFailed)
        /\ (last_call.stage = "img2vid" =>
                /\ k \in 1 .. shorter
                /\ FirstPrompt =
                     Img2VidPrompt(scenes_output[k], txt2img_prompts[k]))

C24_Witness ==
    /\ pc = "assemble"
    /\ Len(scenes_output) = MaxScenes
    /\ Len(txt2img_prompts) = 1
    /\ Len(img2vid_prompts) = 1
    /\ total_calls = 1
    /\ error = <<>>

\* The run is over: generate returned or raised, or the handler warned.
Ended == pc \in {"returned", "raised", "warned"}

\* C25 as claimed: over a resolved scene count N the run makes at least
\* 1 + 3N invocations when it completes and at most 2 * (1 + 3N) in every
\* case.
C25_BudgetInN ==
    ad_details # <<>> =>
        /\ (pc = "returned" => total_calls >= 1 + 3 * N)
        /\ total_calls <= 2 * (1 + 3 * N)

\* C25, amended: a run always ends, with a storyboard or with an error, and
\* over a resolved scene count N it makes at least 1 + 3 * max(N, 0)
\* invocations when it completes and at most 2 * (1 + 3 * max(N, 0)) in
\* every case: a count below zero gives no scene, as zero does.
C25_Budget ==
    LET scenes == IF N > 0 THEN N ELSE 0
    IN  /\ (pc = "returned" => storyboard # <<>> /\ error = <<>>)
        /\ (pc = "raised" => storyboard = <<>> /\ error # <<>>)
        /\ (ad_details # <<>> =>
                /\ (pc = "returned" => total_calls >= 1 + 3 * scenes)
                /\ total_calls <= 2 * (1 + 3 * scenes))

C25_EndsWithinBudget == []C25_Budget /\ <>Ended

C25_Witness ==
    /\ pc = "returned"
    /\ N = MaxScenes
    /\ total_calls = 2 * (1 + 3 * MaxScenes)

\* C26: when the resolved Ad Details has number_of_scenes <= 0, no stage
\* makes a completion invocation after generate_ad_details, Scene Inputs
\* supplied or not: the three lists stay empty, no error is raised, and the
\* run completes with a storyboard whose three lists are empty.
C26_NoScenes ==
    ad_details # <<>> /\ N <= 0 =>
        /\ last_call.stage = "ad_details"
        /\ total_calls = last_call.attempt
        /\ scenes_output = <<>>
        /\ txt2img_prompts = <<>>
        /\ img2vid_prompts = <<>>
        /\ error = <<>>
        /\ pc # "raised"
        /\ (pc = "returned" =>
                /\ storyboard[1].ad_details = ad_details[1]
                /\ storyboard[1].scenes = <<>>
                /\ storyboard[1].txt2img_prompts = <<>>
                /\ storyboard[1].img2vid_prompts = <<>>)

C26_EmptyStoryboard ==
    /\ []C26_NoScenes
    /\ ((ad_details # <<>> /\ N <= 0) ~> (pc = "returned" /\ storyboard # <<>>))

C26_Witness ==
    /\ pc = "returned"
    /\ N = 0
    /\ Len(RequestScenes) = MaxScenes
    /\ storyboard[1].scenes = <<>>
    /\ storyboard[1].img2vid_prompts = <<>>
    /\ total_calls = 2

====
